---- MODULE Spec2Model ----
(***************************************************************************)
(* Model of src/app.py: the /extract request handler (extract_stream), the *)
(* two scripts it injects into the rendered page (JS_EXTRACT_IFRAMES and   *)
(* JS_EXTRACT_STREAM_LINKS), the merge of the three iframe sources and the *)
(* same-domain link fallback.                                              *)
(*                                                                         *)
(* Strings the code inspects character-wise (URLs, hrefs, element texts)   *)
(* are sequences of tokens; the empty string is <<>>.  Every string has    *)
(* one tokenisation, so equality of token sequences is equality of the     *)
(* strings, and no token of a host name occurs inside another, so a        *)
(* contiguous run of tokens is a substring.                                *)
(***************************************************************************)
EXTENDS Naturals, Sequences, FiniteSets, TLC

VARIABLES
    pc,               \* where the handler stands
    url,              \* data.get('url', '')
    consent,          \* data.get('consent', {})
    driver,           \* "None", "open" or "quit"
    launches,         \* browsers started for the request
    quits,            \* calls of driver.quit()
    page,             \* the document the browser has loaded
    iframes_from_js,  \* result of JS_EXTRACT_IFRAMES
    stream_links,     \* result of JS_EXTRACT_STREAM_LINKS
    iframes,          \* the merged list
    log,              \* the warnings logged
    response          \* status and JSON body returned

vars == <<pc, url, consent, driver, launches, quits, page,
          iframes_from_js, stream_links, iframes, log, response>>

(***************************************************************************)
(* Bounds of the model.                                                    *)
(***************************************************************************)
\* Iframes, controls and scripts on one rendered page.
MaxPage == 3
\* Anchors on one rendered page of links.
MaxAnchors == 2
\* How far a generated list of numbered anchors may exceed the link cap.
MaxOver == 1

(***************************************************************************)
(* String helpers.                                                         *)
(***************************************************************************)
\* str.strip() / String.prototype.trim(): drop leading and trailing blanks.
RECURSIVE LStrip(_)
LStrip(s) == IF s # <<>> /\ Head(s) = " " THEN LStrip(Tail(s)) ELSE s

RECURSIVE RStrip(_)
RStrip(s) == IF s # <<>> /\ s[Len(s)] = " " THEN RStrip(SubSeq(s, 1, Len(s) - 1)) ELSE s

Strip(s) == RStrip(LStrip(s))

\* Python's `sub in s` on strings: sub occurs as a contiguous run of s.
Contains(sub, s) ==
    \E i \in 0..Len(s) : i + Len(sub) <= Len(s) /\ SubSeq(s, i + 1, i + Len(sub)) = sub

\* str.startswith(p) for a prefix p that is a whole number of tokens.
StartsWith(s, p) == Len(s) >= Len(p) /\ SubSeq(s, 1, Len(p)) = p

\* href.startswith('/'): "//" begins with "/" as well.
StartsWithSlash(s) == s # <<>> /\ s[1] \in {"/", "//"}

\* href.startswith('http'): the first token begins with the letters http.
StartsWithHttp(s) == s # <<>> /\ s[1] \in {"http", "https"}

\* Tokens urlparse accepts as a scheme when a colon follows them.
SchemeTokens == {"http", "https", "ftp", "javascript"}

\* The network location ends at the first "/", "?" or "#".
RECURSIVE TakeNetloc(_)
TakeNetloc(s) ==
    IF s = <<>> \/ Head(s) \in {"/", "?", "#"} THEN <<>>
    ELSE <<Head(s)>> \o TakeNetloc(Tail(s))

\* urllib.parse.urlparse, the two components the handler reads.
urlparse(s) ==
    LET hasScheme == Len(s) >= 2 /\ s[1] \in SchemeTokens /\ s[2] = ":"
        rest      == IF hasScheme THEN SubSeq(s, 3, Len(s)) ELSE s
    IN  [scheme |-> IF hasScheme THEN s[1] ELSE "",
         netloc |-> IF rest # <<>> /\ Head(rest) = "//"
                    THEN TakeNetloc(Tail(rest)) ELSE <<>>]

\* dict.get(key, default) / Tag.get(attr, default) on an attribute map.
Get(elem, attr, default) == IF attr \in DOMAIN elem THEN elem[attr] ELSE default

(***************************************************************************)
(* JS_EXTRACT_IFRAMES: one entry per iframe of the live document.          *)
(***************************************************************************)
ExtractIframes(live) ==
    [i \in 1..Len(live) |->
        [src |-> live[i].src, id |-> live[i].id, className |-> live[i].className]]

(***************************************************************************)
(* JS_EXTRACT_STREAM_LINKS.                                                *)
(***************************************************************************)
\* String.prototype.toLowerCase on the tokens of element texts.
LowerTok(t) ==
    CASE t = "Link"   -> "link"
      [] t = "HD"     -> "hd"
      [] t = "Server" -> "server"
      [] t = "Home"   -> "home"
      [] OTHER        -> t

\* text.includes('link') || includes('hd') || includes('server') || /link[\s-]*\d/
LooksLikeStreamLink(text) ==
    \E i \in 1..Len(text) : LowerTok(text[i]) \in {"link", "hd", "server"}

\* Method 1: clickable elements whose text looks like a stream selector.
RECURSIVE Method1(_, _)
Method1(links, buttons) ==
    IF buttons = <<>> THEN links
    ELSE LET elem == Head(buttons)
             next ==
                 IF LooksLikeStreamLink(elem.textContent)
                 THEN IF elem.onclickUrl # <<>>
                      THEN Append(links, [label |-> Strip(elem.textContent),
                                          url   |-> elem.onclickUrl])
                      ELSE IF elem.dataUrl # <<>>
                      THEN Append(links, [label |-> Strip(elem.textContent),
                                          url   |-> elem.dataUrl])
                      ELSE links
                 ELSE links
         IN  Method1(next, Tail(buttons))

\* allStreamsData.forEach: push every entry with a value and a label.
RECURSIVE PushStreams(_, _)
PushStreams(links, data) ==
    IF data = <<>> THEN links
    ELSE LET stream == Head(data)
         IN  PushStreams(
                 IF stream.value # <<>> /\ stream.label # <<>>
                 THEN Append(links, [label |-> stream.label, url |-> stream.value])
                 ELSE links,
                 Tail(data))

\* Method 2: the allStreams array literal of a script, when it parses.
RECURSIVE Method2(_, _)
Method2(links, scripts) ==
    IF scripts = <<>> THEN links
    ELSE LET s == Head(scripts)
         IN  Method2(
                 IF s.allStreams.kind = "array"
                 THEN PushStreams(links, s.allStreams.data)
                 ELSE links,
                 Tail(scripts))

\* playerMatches.forEach without the test that the URL is not yet in links.
RECURSIVE PushPlayersUnchecked(_, _)
PushPlayersUnchecked(links, matches) ==
    IF matches = <<>> THEN links
    ELSE PushPlayersUnchecked(
             Append(links, [label |-> <<"Server", " ", ToString(Len(links) + 1)>>,
                            url   |-> Head(matches)]),
             Tail(matches))

\* playerMatches.forEach with the label 'Server ' + links.length.
RECURSIVE PushPlayersOffByOne(_, _)
PushPlayersOffByOne(links, matches) ==
    IF matches = <<>> THEN links
    ELSE LET u == Head(matches)
         IN  PushPlayersOffByOne(
                 IF ~ \E i \in 1..Len(links) : links[i].url = u
                 THEN Append(links, [label |-> <<"Server", " ", ToString(Len(links))>>,
                                     url   |-> u])
                 ELSE links,
                 Tail(matches))

\* playerMatches.forEach: push a match unless its URL is already in links.
RECURSIVE PushPlayers(_, _)
PushPlayers(links, matches) ==
    IF matches = <<>> THEN links
    ELSE LET u == Head(matches)
         IN  PushPlayers(
                 IF ~ \E i \in 1..Len(links) : links[i].url = u
                 THEN Append(links, [label |-> <<"Server", " ", ToString(Len(links) + 1)>>,
                                     url   |-> u])
                 ELSE links,
                 Tail(matches))

\* Method 3: player URLs matched in the text of every script.
RECURSIVE Method3(_, _)
Method3(links, scripts) ==
    IF scripts = <<>> THEN links
    ELSE Method3(PushPlayers(links, Head(scripts).playerMatches), Tail(scripts))

ExtractStreamLinks(buttons, scripts) ==
    Method3(Method2(Method1(<<>>, buttons), scripts), scripts)

(***************************************************************************)
(* extract_stream: the static iframes of the parsed page source.           *)
(***************************************************************************)
\* The value of a 'label' key of an iframe dictionary: a string, None, or
\* no key at all.
LabelStr(s) == [kind |-> "str", text |-> s]
LabelNone == [kind |-> "None", text |-> <<>>]
LabelMissing == [kind |-> "missing", text |-> <<>>]

\* for iframe in soup.find_all('iframe'): keep those with a src.
RECURSIVE ParseIframes(_)
ParseIframes(elems) ==
    IF elems = <<>> THEN <<>>
    ELSE LET iframe == Head(elems)
             iframe_data ==
                 [src             |-> Get(iframe, "src", <<>>),
                  width           |-> Get(iframe, "width", <<"100%">>),
                  height          |-> Get(iframe, "height", <<"500">>),
                  allowfullscreen |-> "allowfullscreen" \in DOMAIN iframe,
                  label           |-> LabelMissing]
         IN  (IF iframe_data.src # <<>> THEN <<iframe_data>> ELSE <<>>)
             \o ParseIframes(Tail(elems))

(***************************************************************************)
(* extract_stream: the merge of the three sources.                         *)
(***************************************************************************)
\* The empty dictionary.
EmptyDict == [k \in {} |-> <<>>]

\* Step 1 with the first entry of a key kept instead of the last.
RECURSIVE UrlToLabelFirstWins(_, _)
UrlToLabelFirstWins(d, links) ==
    IF links = <<>> THEN d
    ELSE LET link == Head(links)
         IN  UrlToLabelFirstWins(
                 IF link.url # <<>> /\ link.label # <<>>
                 THEN d @@ (link.url :> link.label)
                 ELSE d,
                 Tail(links))

\* Step 1: {link['url']: link['label'] for link in stream_links if both},
\* a later entry replacing an earlier one with the same key.
RECURSIVE UrlToLabel(_, _)
UrlToLabel(d, links) ==
    IF links = <<>> THEN d
    ELSE LET link == Head(links)
         IN  UrlToLabel(
                 IF link.url # <<>> /\ link.label # <<>>
                 THEN (link.url :> link.label) @@ d
                 ELSE d,
                 Tail(links))

\* Step 2: label the static iframes whose src is a key of the dictionary.
ApplyLabels(static, url_to_label) ==
    [i \in 1..Len(static) |->
        IF static[i].src \in DOMAIN url_to_label
        THEN [static[i] EXCEPT !.label = LabelStr(url_to_label[static[i].src])]
        ELSE static[i]]

\* all_iframe_srcs = set([i['src'] for i in iframes if i['src']])
SrcSet(list) == {list[i].src : i \in {j \in 1..Len(list) : list[j].src # <<>>}}

\* An iframe found by a script: the fixed display attributes.
Dynamic(src, label) ==
    [src |-> src, width |-> <<"100%">>, height |-> <<"600">>,
     allowfullscreen |-> TRUE, label |-> label]

\* Step 3 with list.insert(0, ...) in place of list.append(...).
RECURSIVE MergeJsInFront(_, _, _, _)
MergeJsInFront(list, all_iframe_srcs, js, url_to_label) ==
    IF js = <<>> THEN [iframes |-> list, all_iframe_srcs |-> all_iframe_srcs]
    ELSE LET js_iframe == Head(js)
         IN  IF js_iframe.src # <<>> /\ js_iframe.src \notin all_iframe_srcs
             THEN MergeJsInFront(
                      <<Dynamic(js_iframe.src,
                          IF js_iframe.src \in DOMAIN url_to_label
                          THEN LabelStr(url_to_label[js_iframe.src])
                          ELSE LabelNone)>> \o list,
                      all_iframe_srcs \cup {js_iframe.src},
                      Tail(js), url_to_label)
             ELSE MergeJsInFront(list, all_iframe_srcs, Tail(js), url_to_label)

\* Step 3: append the live iframes whose src is not yet in the list.
RECURSIVE MergeJs(_, _, _, _)
MergeJs(list, all_iframe_srcs, js, url_to_label) ==
    IF js = <<>> THEN [iframes |-> list, all_iframe_srcs |-> all_iframe_srcs]
    ELSE LET js_iframe == Head(js)
         IN  IF js_iframe.src # <<>> /\ js_iframe.src \notin all_iframe_srcs
             THEN MergeJs(
                      Append(list, Dynamic(js_iframe.src,
                          IF js_iframe.src \in DOMAIN url_to_label
                          THEN LabelStr(url_to_label[js_iframe.src])
                          ELSE LabelNone)),
                      all_iframe_srcs \cup {js_iframe.src},
                      Tail(js), url_to_label)
             ELSE MergeJs(list, all_iframe_srcs, Tail(js), url_to_label)

\* Step 4: append the stream links whose URL is not yet in the list.
RECURSIVE MergeLinks(_, _, _)
MergeLinks(list, all_iframe_srcs, links) ==
    IF links = <<>> THEN list
    ELSE LET link == Head(links)
         IN  IF link.url # <<>> /\ link.url \notin all_iframe_srcs
             THEN MergeLinks(Append(list, Dynamic(link.url, LabelStr(link.label))),
                             all_iframe_srcs \cup {link.url}, Tail(links))
             ELSE MergeLinks(list, all_iframe_srcs, Tail(links))

\* Steps 1 to 4 on the static iframes, the live iframes and the stream links.
Merge(static, js, links) ==
    LET url_to_label == UrlToLabel(EmptyDict, links)
        labelled     == ApplyLabels(static, url_to_label)
        merged       == MergeJs(labelled, SrcSet(labelled), js, url_to_label)
    IN  MergeLinks(merged.iframes, merged.all_iframe_srcs, links)

(***************************************************************************)
(* extract_stream: the links offered when no iframe was found.             *)
(***************************************************************************)
\* 'links': unique_links[:50]
MaxLinks == 50

\* soup.find_all('a', href=True): the anchors that carry an href attribute.
RECURSIVE WithHref(_)
WithHref(anchors) ==
    IF anchors = <<>> THEN <<>>
    ELSE (IF "href" \in DOMAIN Head(anchors) THEN <<Head(anchors)>> ELSE <<>>)
         \o WithHref(Tail(anchors))

\* The loop over the anchors without the step that makes an href absolute.
RECURSIVE LinksFoundUnresolved(_, _)
LinksFoundUnresolved(anchors, target) ==
    IF anchors = <<>> THEN <<>>
    ELSE LET link      == Head(anchors)
             href      == Strip(Get(link, "href", <<>>))
             link_text == Strip(link.text)
             domain    == urlparse(target).netloc
             skipped   == href = <<>> \/ StartsWith(href, <<"#">>)
                          \/ StartsWith(href, <<"javascript", ":">>)
             relative  == ~ StartsWithSlash(href) /\ ~ StartsWithHttp(href)
             foreign   == ~ Contains(domain, urlparse(href).netloc)
             keep      == ~ skipped /\ ~ relative /\ ~ foreign /\ href # target
         IN  (IF keep
              THEN <<[url |-> href, title |-> IF link_text # <<>> THEN link_text ELSE href]>>
              ELSE <<>>)
             \o LinksFoundUnresolved(Tail(anchors), target)

\* The loop over the anchors: skip, resolve, keep the links of the same domain.
RECURSIVE LinksFound(_, _)
LinksFound(anchors, target) ==
    IF anchors = <<>> THEN <<>>
    ELSE LET link      == Head(anchors)
             raw       == Strip(Get(link, "href", <<>>))
             link_text == Strip(link.text)
             parsed    == urlparse(target)
             domain    == parsed.netloc
             skipped   == raw = <<>> \/ StartsWith(raw, <<"#">>)
                          \/ StartsWith(raw, <<"javascript", ":">>)
             relative  == ~ StartsWithSlash(raw) /\ ~ StartsWithHttp(raw)
             href      == IF StartsWithSlash(raw)
                          THEN <<parsed.scheme, ":", "//">> \o domain \o raw
                          ELSE raw
             foreign   == ~ Contains(domain, urlparse(href).netloc)
             keep      == ~ skipped /\ ~ relative /\ ~ foreign /\ href # target
         IN  (IF keep
              THEN <<[url |-> href, title |-> IF link_text # <<>> THEN link_text ELSE href]>>
              ELSE <<>>)
             \o LinksFound(Tail(anchors), target)

\* The removal of duplicates left out.
UniqueLinksKeepsAll(links_found, seen_urls) == links_found

\* Remove duplicates: the first link of every URL stays.
RECURSIVE UniqueLinks(_, _)
UniqueLinks(links_found, seen_urls) ==
    IF links_found = <<>> THEN <<>>
    ELSE LET link == Head(links_found)
         IN  IF link.url \notin seen_urls
             THEN <<link>> \o UniqueLinks(Tail(links_found), seen_urls \cup {link.url})
             ELSE UniqueLinks(Tail(links_found), seen_urls)

\* unique_links[:50]
Truncate(links) == SubSeq(links, 1, IF Len(links) < MaxLinks THEN Len(links) ELSE MaxLinks)

FallbackLinks(anchors, target) ==
    Truncate(UniqueLinks(LinksFound(WithHref(anchors), target), {}))

(***************************************************************************)
(* The requests and the pages of the model.                                *)
(***************************************************************************)
Site == <<"https", ":", "//", "site.example", "/", "watch", "/", "1">>
SitePlain == <<"http", ":", "//", "site.example", "/", "watch", "/", "2">>

\* The value of data.get('url', '').
Urls ==
    { <<>>,
      <<"ftp", ":", "//", "site.example", "/", "watch", "/", "1">>,
      <<"site.example", "/", "watch", "/", "1">>,
      <<"https", ":", "//", "/", "watch", "/", "1">>,
      Site, SitePlain }

\* datetime.fromisoformat accepts the timestamp.
IsIsoFormat(timestamp) == timestamp = <<"2024-01-01T00:00:00Z">>

Consents ==
    [given : BOOLEAN, timestamp : {<<>>, <<"2024-01-01T00:00:00Z">>, <<"yesterday">>}]

\* Player URLs.
U1 == <<"https", ":", "//", "p.example", "/", "1">>
U2 == <<"https", ":", "//", "p.example", "/", "2">>
U3 == <<"https", ":", "//", "p.example", "/", "3">>

\* <iframe> elements of the page source, as attribute maps.
StaticElems ==
    { [src |-> U1, width |-> <<"640">>, height |-> <<"360">>, allowfullscreen |-> <<>>],
      [src |-> U2],
      [src |-> <<>>],
      [width |-> <<"640">>] }

\* <iframe> elements of the live document.
LiveElems == [src : {<<>>, U1, U2}, id : {<<>>}, className : {<<>>}]

\* Elements matched by the selector of Method 1: their text, the URL the
\* pattern finds in onclick, and data-url || data-src || data-stream.
ButtonElems ==
    { [textContent |-> <<" ", "Link", " ", "1", " ", "HD", " ">>, onclickUrl |-> U1, dataUrl |-> <<>>],
      [textContent |-> <<"Server", " ", "2">>, onclickUrl |-> <<>>, dataUrl |-> U3],
      [textContent |-> <<"HD">>, onclickUrl |-> U2, dataUrl |-> U1],
      [textContent |-> <<"Home">>, onclickUrl |-> U1, dataUrl |-> <<>>] }

\* <script> elements: what the allStreams pattern and JSON.parse give, and
\* the matches of the player URL pattern in the script text.
ScriptElems ==
    { [allStreams |-> [kind |-> "array", data |-> <<[label |-> <<"Stream", " ", "A">>, value |-> U1]>>],
       playerMatches |-> <<>>],
      [allStreams |-> [kind |-> "array",
                       data |-> <<[label |-> <<>>, value |-> U1],
                                  [label |-> <<"Stream", " ", "B">>, value |-> U2]>>],
       playerMatches |-> <<U2>>],
      [allStreams |-> [kind |-> "unparsable", data |-> <<>>], playerMatches |-> <<U1, U2>>],
      [allStreams |-> [kind |-> "none", data |-> <<>>], playerMatches |-> <<U2, U2>>] }

\* <a> elements of the page source.
AnchorElems ==
    { [href |-> <<"#", "top">>, text |-> <<"Top">>],
      [href |-> <<"javascript", ":", "void(0)">>, text |-> <<"Play">>],
      [href |-> <<"/", "watch", "/", "2">>, text |-> <<"Next">>],
      [href |-> <<" ", "/", "watch", "/", "2", " ">>, text |-> <<" ">>],
      [href |-> <<"https", ":", "//", "site.example", "/", "watch", "/", "2">>, text |-> <<"Game", " ", "2">>],
      [href |-> <<"watch", "/", "3">>, text |-> <<"Game", " ", "3">>],
      [href |-> <<"https", ":", "//", "other.example", "/", "x">>, text |-> <<"Other">>],
      [href |-> <<"http", ":", "//", "site.example", "/", "watch", "/", "2">>, text |-> <<"Plain">>],
      [href |-> <<"https", ":", "//", "site.example", ".evil.example", "/", "x">>, text |-> <<"Mirror">>],
      [href |-> Site, text |-> <<"Here">>],
      [href |-> <<>>, text |-> <<"Empty">>],
      [href |-> <<"/", "p", "/", "1">>, text |-> <<"First">>],
      [text |-> <<"Name">>] }

\* A navigation list of n numbered links without text: /p/1 ... /p/n.
NumberedAnchors(n) == [i \in 1..n |-> [href |-> <<"/", "p", "/", ToString(i)>>, text |-> <<>>]]

\* The lengths of the numbered lists: none, or around the cap.
ListLengths == {0} \cup ((MaxLinks - 1)..(MaxLinks + MaxOver))

EmptyPage ==
    [iframes |-> <<>>, live |-> <<>>, buttons |-> <<>>, scripts |-> <<>>,
     anchors |-> <<>>, title |-> <<>>]

NoResponse == [status |-> 0, error |-> "", title |-> <<>>, iframes |-> <<>>, links |-> <<>>]

Error(status, error) == [NoResponse EXCEPT !.status = status, !.error = error]

(***************************************************************************)
(* The handler, one action per stretch between calls that may fail.        *)
(***************************************************************************)
Init ==
    /\ pc = "idle"
    /\ url = <<>>
    /\ consent = [given |-> FALSE, timestamp |-> <<>>]
    /\ driver = "None"
    /\ launches = 0
    /\ quits = 0
    /\ page = EmptyPage
    /\ iframes_from_js = <<>>
    /\ stream_links = <<>>
    /\ iframes = <<>>
    /\ log = {}
    /\ response = NoResponse

\* The validation without the test for a hostname.
ValidateAnyHost(u, c) ==
    IF ~ c.given \/ c.timestamp = <<>> THEN Error(403, "consent_required")
    ELSE IF ~ IsIsoFormat(c.timestamp) THEN Error(400, "invalid_timestamp")
    ELSE IF u = <<>> THEN Error(400, "url_required")
    ELSE IF urlparse(u).scheme \notin {"http", "https"} THEN Error(400, "invalid_scheme")
    ELSE NoResponse

\* The validation of consent and URL: the answer it returns, or NoResponse
\* when the request passes.
Validate(u, c) ==
    IF ~ c.given \/ c.timestamp = <<>> THEN Error(403, "consent_required")
    ELSE IF ~ IsIsoFormat(c.timestamp) THEN Error(400, "invalid_timestamp")
    ELSE IF u = <<>> THEN Error(400, "url_required")
    ELSE IF urlparse(u).scheme \notin {"http", "https"} THEN Error(400, "invalid_scheme")
    ELSE IF urlparse(u).netloc = <<>> THEN Error(400, "missing_hostname")
    ELSE NoResponse

\* The request arrives and is validated; a refusal returns with driver None.
Receive ==
    /\ pc = "idle"
    /\ \E u \in Urls, c \in Consents :
        /\ url' = u
        /\ consent' = c
        /\ response' = Validate(u, c)
        /\ pc' = IF Validate(u, c) = NoResponse THEN "launch" ELSE "done"
    /\ UNCHANGED <<driver, launches, quits, page, iframes_from_js, stream_links, iframes, log>>

\* except Exception: 500, with no finally block to quit the driver.
FailWithoutFinally ==
    /\ response' = Error(500, "failed_to_extract")
    /\ pc' = "done"
    /\ UNCHANGED <<driver, quits>>

\* except Exception: 500; finally: quit the driver if there is one.
Fail ==
    /\ response' = Error(500, "failed_to_extract")
    /\ pc' = "done"
    /\ IF driver = "open"
       THEN driver' = "quit" /\ quits' = quits + 1
       ELSE UNCHANGED <<driver, quits>>

\* driver = get_selenium_driver(); driver.set_page_load_timeout(10).
\* Either both succeed, or get_selenium_driver raises and driver stays None,
\* or the browser starts and set_page_load_timeout raises.
Launch ==
    /\ pc = "launch"
    /\ \/ /\ driver' = "open"
          /\ launches' = launches + 1
          /\ pc' = "get"
          /\ UNCHANGED <<quits, response>>
       \/ /\ Fail
          /\ UNCHANGED launches
       \/ /\ launches' = launches + 1
          /\ driver' = "quit"
          /\ quits' = quits + 1
          /\ response' = Error(500, "failed_to_extract")
          /\ pc' = "done"
    /\ UNCHANGED <<url, consent, page, iframes_from_js, stream_links, iframes, log>>

\* The anchors of the pages that show players.
SiteMenu ==
    << [href |-> <<"/", "watch", "/", "2">>, text |-> <<"Next">>],
       [href |-> <<"https", ":", "//", "other.example", "/", "x">>, text |-> <<"Other">>] >>

\* Pages with players: at most MaxPage iframes, controls and scripts.
PlayerPage(p) ==
    \E a \in 0..MaxPage : \E b \in 0..(MaxPage - a) : \E c \in 0..(MaxPage - a - b) :
    \E d \in 0..(MaxPage - a - b - c) :
    \E st \in [1..a -> StaticElems], lv \in [1..b -> LiveElems],
       bt \in [1..c -> ButtonElems], sc \in [1..d -> ScriptElems] :
        p = [iframes |-> st, live |-> lv, buttons |-> bt, scripts |-> sc,
             anchors |-> SiteMenu, title |-> <<"Live">>]

\* Pages of links: at most MaxAnchors anchors, a numbered list counting as one.
LinkPage(p) ==
    \E n \in ListLengths : \E e \in 0..(MaxAnchors - (IF n > 0 THEN 1 ELSE 0)) :
    \E an \in [1..e -> AnchorElems] :
        p = [EmptyPage EXCEPT !.anchors = an \o NumberedAnchors(n)]

\* driver.get(url), the waits, driver.page_source
GetPage ==
    /\ pc = "get"
    /\ \/ /\ PlayerPage(page')
          /\ pc' = "exec_iframes"
          /\ UNCHANGED <<driver, quits, response>>
       \/ /\ LinkPage(page')
          /\ pc' = "exec_iframes"
          /\ UNCHANGED <<driver, quits, response>>
       \/ /\ Fail
          /\ UNCHANGED page
    /\ UNCHANGED <<url, consent, launches, iframes_from_js, stream_links, iframes, log>>

\* JS_EXTRACT_IFRAMES without its try/except: a failure ends the request.
ExecIframesUnguarded ==
    /\ pc = "exec_iframes"
    /\ \/ /\ iframes_from_js' = ExtractIframes(page.live)
          /\ pc' = "exec_links"
          /\ UNCHANGED <<driver, quits, response, log>>
       \/ /\ Fail
          /\ log' = log \cup {"Failed to extract iframes via JavaScript"}
          /\ UNCHANGED iframes_from_js
    /\ UNCHANGED <<url, consent, launches, page, stream_links, iframes>>

\* driver.execute_script(JS_EXTRACT_IFRAMES), [] when it raises
ExecIframes ==
    /\ pc = "exec_iframes"
    /\ \/ /\ iframes_from_js' = ExtractIframes(page.live)
          /\ UNCHANGED log
       \/ /\ iframes_from_js' = <<>>
          /\ log' = log \cup {"Failed to extract iframes via JavaScript"}
    /\ pc' = "exec_links"
    /\ UNCHANGED <<url, consent, driver, launches, quits, page, stream_links, iframes, response>>

\* driver.execute_script(JS_EXTRACT_STREAM_LINKS), [] when it raises
ExecStreamLinks ==
    /\ pc = "exec_links"
    /\ \/ /\ stream_links' = ExtractStreamLinks(page.buttons, page.scripts)
          /\ UNCHANGED log
       \/ /\ stream_links' = <<>>
          /\ log' = log \cup {"Failed to extract stream links"}
    /\ pc' = "merge"
    /\ UNCHANGED <<url, consent, driver, launches, quits, page, iframes_from_js, iframes, response>>

\* soup.find('title'): the text of the title, or 'Stream'.
PageTitle(p) == IF p.title # <<>> THEN p.title ELSE <<"Stream">>

\* The answer decided by the static iframes of the page alone.
RespondByStatic(list, p, target) ==
    IF ParseIframes(p.iframes) = <<>>
    THEN [status |-> 404, error |-> "no_iframes", title |-> <<>>, iframes |-> <<>>,
          links |-> FallbackLinks(p.anchors, target)]
    ELSE [status |-> 200, error |-> "", title |-> PageTitle(p), iframes |-> list,
          links |-> <<>>]

\* The answer for a merged list: the links of the page when it is empty.
Respond(list, p, target) ==
    IF list = <<>>
    THEN [status |-> 404, error |-> "no_iframes", title |-> <<>>, iframes |-> <<>>,
          links |-> FallbackLinks(p.anchors, target)]
    ELSE [status |-> 200, error |-> "", title |-> PageTitle(p), iframes |-> list,
          links |-> <<>>]

\* Parse the page source, merge the three sources, answer, quit the driver.
Finish ==
    /\ pc = "merge"
    /\ iframes' = Merge(ParseIframes(page.iframes), iframes_from_js, stream_links)
    /\ response' = Respond(iframes', page, url)
    /\ log' = IF iframes' = <<>> THEN log \cup {"No iframes found on URL"} ELSE log
    /\ driver' = "quit"
    /\ quits' = quits + 1
    /\ pc' = "done"
    /\ UNCHANGED <<url, consent, launches, page, iframes_from_js, stream_links>>

Next == Receive \/ Launch \/ GetPage \/ ExecIframes \/ ExecStreamLinks \/ Finish

Spec == Init /\ [][Next]_vars

\* The handler runs to its return: every call it waits for is bounded by a
\* timeout (page load 10 s, the explicit waits 8 s and 3 s).
\* Every step of the handler moves pc, and a step is possible exactly while
\* the handler has not returned, so fairness of Advance is fairness of Next.
Advance ==
    /\ pc # "done"
    /\ pc' \in {"launch", "get", "exec_iframes", "exec_links", "merge", "done"} \ {pc}

FairSpec == Spec /\ WF_pc(Advance)

(***************************************************************************)
(* Properties.                                                             *)
(***************************************************************************)
\* The handler has merged the sources and answered.
Answered == pc = "done" /\ response.status \in {200, 404}

\* The static iframes the merge started from.
Static == ParseIframes(page.iframes)

\* The non-empty URLs of a list, by the field that holds them.
JsSrcs == {iframes_from_js[i].src : i \in 1..Len(iframes_from_js)} \ {<<>>}
LinkUrls == {stream_links[i].url : i \in 1..Len(stream_links)} \ {<<>>}
StaticSrcs == {Static[i].src : i \in 1..Len(Static)}

\* The place of the first entry of a list of live iframes with a src.
FirstJs(u) == CHOOSE i \in 1..Len(iframes_from_js) :
    /\ iframes_from_js[i].src = u
    /\ \A j \in 1..(i - 1) : iframes_from_js[j].src # u

\* The place of the first stream link with a URL.
FirstLink(u) == CHOOSE i \in 1..Len(stream_links) :
    /\ stream_links[i].url = u
    /\ \A j \in 1..(i - 1) : stream_links[j].url # u

\* C1: the iframes of a success response never hold the same src twice.
C1_UniqueSrc ==
    (pc = "done" /\ response.status = 200) =>
        \A i, j \in 1..Len(response.iframes) :
            i # j => response.iframes[i].src # response.iframes[j].src

\* C2: the merged list is the static iframes in document order, then the
\* live iframes not among them, each once and in the order of the live
\* list, then the stream links not yet present, each once and in the order
\* of the stream links.
C2_SourceOrder ==
    Answered =>
        LET n  == Len(Static)
            js == JsSrcs \ StaticSrcs
            k  == n + Cardinality(js)
            ls == LinkUrls \ (StaticSrcs \cup JsSrcs)
        IN  /\ Len(iframes) = k + Cardinality(ls)
            /\ \A i \in 1..n : iframes[i].src = Static[i].src
            /\ {iframes[i].src : i \in (n + 1)..k} = js
            /\ \A i, j \in (n + 1)..k :
                   i < j => FirstJs(iframes[i].src) < FirstJs(iframes[j].src)
            /\ {iframes[i].src : i \in (k + 1)..Len(iframes)} = ls
            /\ \A i, j \in (k + 1)..Len(iframes) :
                   i < j => FirstLink(iframes[i].src) < FirstLink(iframes[j].src)

\* A static iframe, a live addition and a stream link addition in one list.
C2_Witness ==
    /\ Answered
    /\ Static # <<>>
    /\ JsSrcs \ StaticSrcs # {}
    /\ LinkUrls \ (StaticSrcs \cup JsSrcs) # {}

\* C3: a static iframe whose src is the URL of a stream link with a URL and
\* a label carries, in the answer, the label of the last such stream link.
C3_StaticLabel ==
    Answered =>
        \A i \in 1..Len(Static) : \A j \in 1..Len(stream_links) :
            ( /\ stream_links[j].url = Static[i].src
              /\ stream_links[j].url # <<>>
              /\ stream_links[j].label # <<>>
              /\ \A m \in (j + 1)..Len(stream_links) :
                     ~ ( /\ stream_links[m].url = Static[i].src
                         /\ stream_links[m].label # <<>> ) )
            => /\ response.iframes[i].src = Static[i].src
               /\ response.iframes[i].label = LabelStr(stream_links[j].label)

\* Two stream links give one static src different labels.
C3_Witness ==
    /\ Answered
    /\ \E i \in 1..Len(Static) : \E j, m \in 1..Len(stream_links) :
        /\ j < m
        /\ stream_links[j].url = Static[i].src
        /\ stream_links[m].url = Static[i].src
        /\ stream_links[j].label # stream_links[m].label
        /\ response.iframes[i].label = LabelStr(stream_links[m].label)

\* The stream links with a non-empty URL, the live iframes with a src and
\* the static iframes with a src: none of the three sources has any.
NoCandidates == Static = <<>> /\ JsSrcs = {} /\ LinkUrls = {}

\* C4: the answer is decided by the merged list alone: with no candidate
\* from any source it is 404 'no_iframes' with the links of the page, and
\* the fallback has run; with a merged list that is not empty it is 200
\* with that list, and the fallback has not run.
C4_VariantByEmptiness ==
    Answered =>
        /\ NoCandidates =>
               /\ response.status = 404
               /\ response.error = "no_iframes"
               /\ "No iframes found on URL" \in log
               /\ response.links = FallbackLinks(page.anchors, url)
        /\ iframes # <<>> =>
               /\ response.status = 200
               /\ response.iframes = iframes
               /\ response.links = <<>>
               /\ "No iframes found on URL" \notin log
        /\ iframes = <<>> <=> NoCandidates

\* All three sources are empty and the page has links to offer.
C4_Witness ==
    /\ Answered
    /\ NoCandidates
    /\ response.status = 404
    /\ response.links # <<>>

\* C5: every link of a 'no_iframes' answer has the scheme and the host of
\* the requested URL.
C5_SameOrigin ==
    (pc = "done" /\ response.status = 404) =>
        \A i \in 1..Len(response.links) :
            /\ urlparse(response.links[i].url).scheme = urlparse(url).scheme
            /\ urlparse(response.links[i].url).netloc = urlparse(url).netloc

\* The links the loop over the anchors kept, before duplicates are removed.
Found == LinksFound(WithHref(page.anchors), url)

\* The places of a list of links that hold a URL for the first time.
FirstPlaces(found) ==
    {i \in 1..Len(found) : \A j \in 1..(i - 1) : found[j].url # found[i].url}

\* C6: the links of a 'no_iframes' answer hold no URL twice, never the
\* requested URL, and at most 50 entries: they are the first 50 distinct
\* URLs in the order met, each with the title of its first anchor, which is
\* the text of the anchor or, without text, the URL.
C6_UniqueCappedLinks ==
    (pc = "done" /\ response.status = 404) =>
        LET links == response.links
            found == Found
            first == FirstPlaces(found)
            rank  == [i \in first |-> Cardinality({j \in first : j <= i})]
            texts == {Strip(page.anchors[a].text) : a \in 1..Len(page.anchors)}
        IN  /\ Len(links) <= 50
            /\ Len(links) = IF Cardinality(first) < 50 THEN Cardinality(first) ELSE 50
            /\ Cardinality({links[i].url : i \in 1..Len(links)}) = Len(links)
            /\ \A i \in 1..Len(links) : links[i].url # url
            /\ \A i \in first : rank[i] <= 50 => links[rank[i]] = found[i]
            /\ \A i \in 1..Len(links) :
                   \/ links[i].title = links[i].url
                   \/ links[i].title # <<>> /\ links[i].title \in texts

\* More than 50 distinct links, one of them met twice: the cap and the
\* removal of duplicates both act.
C6_Witness ==
    /\ pc = "done"
    /\ response.status = 404
    /\ LET found == Found
       IN  /\ Cardinality(FirstPlaces(found)) > 50
           /\ Len(found) > Cardinality(FirstPlaces(found))
    /\ Len(response.links) = 50

\* C7: a failure of either script call is absorbed: the result of that call
\* is the empty list, the request still ends with 200 or 404, every static
\* iframe is in the merged list, and so is every URL of the call that did
\* not fail.
C7_ScriptFailureAbsorbed ==
    LET noIframes == "Failed to extract iframes via JavaScript" \in log
        noLinks   == "Failed to extract stream links" \in log
    IN  (noIframes \/ noLinks) =>
            /\ noIframes => iframes_from_js = <<>>
            /\ noLinks => stream_links = <<>>
            /\ pc = "done" =>
                   LET srcs == {iframes[i].src : i \in 1..Len(iframes)}
                   IN  /\ response.status \in {200, 404}
                       /\ driver = "quit"
                       /\ StaticSrcs \subseteq srcs
                       /\ ~ noIframes =>
                              /\ iframes_from_js = ExtractIframes(page.live)
                              /\ JsSrcs \subseteq srcs
                       /\ ~ noLinks =>
                              /\ stream_links = ExtractStreamLinks(page.buttons, page.scripts)
                              /\ LinkUrls \subseteq srcs
                       /\ response.status = 200 <=> srcs # {}

\* The read of the live iframes failed on a page that has some; the static
\* iframes and the stream links still make a 200 answer.
C7_Witness ==
    /\ pc = "done"
    /\ "Failed to extract iframes via JavaScript" \in log
    /\ "Failed to extract stream links" \notin log
    /\ \E i \in 1..Len(page.live) : page.live[i].src # <<>>
    /\ Static # <<>>
    /\ LinkUrls \ StaticSrcs # {}
    /\ response.status = 200

\* The URL of the request is empty, or has a scheme other than http and
\* https, or has no hostname.
BadUrl == url = <<>> \/ urlparse(url).scheme \notin {"http", "https"} \/ urlparse(url).netloc = <<>>

\* The consent check, which comes first, lets the request through.
ConsentPasses == consent.given /\ IsIsoFormat(consent.timestamp)

\* C8: a request with such a URL is answered at once with a client error,
\* which is the URL error 400 when the consent check passes, and no browser
\* is ever started for it.
C8_BadUrlRefused ==
    (pc # "idle" /\ BadUrl) =>
        /\ pc = "done"
        /\ launches = 0
        /\ driver = "None"
        /\ page = EmptyPage
        /\ response.status \in {400, 403}
        /\ ConsentPasses =>
               /\ response.status = 400
               /\ response.error \in {"url_required", "invalid_scheme", "missing_hostname"}

\* A URL with a good scheme and no hostname is refused.
C8_Witness ==
    /\ pc = "done"
    /\ ConsentPasses
    /\ url # <<>>
    /\ urlparse(url).scheme = "https"
    /\ urlparse(url).netloc = <<>>
    /\ response.error = "missing_hostname"
    /\ launches = 0

\* The stream link script has run on the page.
Mined ==
    /\ pc = "merge" \/ Answered
    /\ "Failed to extract stream links" \notin log

\* What Method 1, and Methods 1 and 2, have pushed on the page.
LinksA == Method1(<<>>, page.buttons)
LinksAB == Method2(LinksA, page.scripts)

\* C10 as claimed: a link pushed by Method 2 or 3 never has the URL of a
\* link of Method 1, and a link pushed by Method 3 never has the URL of a
\* link of Method 2.
C10_LaterMethodsSkip ==
    Mined =>
        LET a == LinksA
            ab == LinksAB
        IN  /\ \A i \in (Len(a) + 1)..Len(stream_links) : \A j \in 1..Len(a) :
                   stream_links[i].url # stream_links[j].url
            /\ \A i \in (Len(ab) + 1)..Len(stream_links) : \A j \in 1..Len(ab) :
                   stream_links[i].url # stream_links[j].url

\* C10 as the script has it: only Method 3 skips. The links start with
\* those of Methods 1 and 2, and a link pushed by Method 3 has a URL that no
\* earlier link has, whichever method pushed that one.
C10_OnlyMethod3Skips ==
    Mined =>
        LET ab == LinksAB
        IN  /\ Len(stream_links) >= Len(ab)
            /\ SubSeq(stream_links, 1, Len(ab)) = ab
            /\ \A i \in (Len(ab) + 1)..Len(stream_links) : \A j \in 1..(i - 1) :
                   stream_links[i].url # stream_links[j].url

\* Method 3 pushed one match and skipped another that Method 1 or 2 had.
C10_Witness ==
    /\ Mined
    /\ Len(stream_links) > Len(LinksAB)
    /\ \E s \in 1..Len(page.scripts) : \E m \in 1..Len(page.scripts[s].playerMatches) :
           \E j \in 1..Len(LinksAB) : LinksAB[j].url = page.scripts[s].playerMatches[m]

\* C11 as claimed: the links pushed by Method 3 are labelled 'Server 1',
\* 'Server 2', ... counting the links of Method 3 alone.
C11_ServerCountsMethod3 ==
    Mined =>
        LET ab == LinksAB
        IN  \A i \in (Len(ab) + 1)..Len(stream_links) :
                stream_links[i].label = <<"Server", " ", ToString(i - Len(ab))>>

\* C11 as the script has it: a link pushed by Method 3 is labelled
\* 'Server N' with N its place in the whole list, the links of Methods 1
\* and 2 counted.
C11_ServerCountsAllLinks ==
    Mined =>
        LET ab == LinksAB
        IN  \A i \in (Len(ab) + 1)..Len(stream_links) :
                stream_links[i].label = <<"Server", " ", ToString(i)>>

\* Method 3 pushed a link after links of Method 1 or 2.
C11_Witness ==
    /\ Mined
    /\ LinksAB # <<>>
    /\ Len(stream_links) > Len(LinksAB)
    /\ stream_links[Len(stream_links)].label[1] = "Server"

\* The hrefs of the anchors of the page, stripped.
Hrefs == {Strip(page.anchors[a].href) :
             a \in {b \in 1..Len(page.anchors) : "href" \in DOMAIN page.anchors[b]}}

\* An href that is a destination and names no scheme.
IsRelative(h) ==
    /\ h # <<>>
    /\ ~ StartsWith(h, <<"#">>)
    /\ ~ StartsWith(h, <<"javascript", ":">>)
    /\ urlparse(h).scheme = ""

\* scheme://host of the requested URL.
Origin == <<urlparse(url).scheme, ":", "//">> \o urlparse(url).netloc

\* A relative href as an absolute URL on the origin of the request.
OnOrigin(h) == IF StartsWithSlash(h) THEN Origin \o h ELSE Origin \o <<"/">> \o h

\* A URL is among the links of the answer, or is left out by one of the
\* three rules: it is the requested URL, or the cap of 50 is reached.
Returned(u) ==
    \/ u = url
    \/ \E i \in 1..Len(response.links) : response.links[i].url = u
    \/ Len(response.links) = 50

\* C12 as claimed: every relative href of the page is returned as a link on
\* the origin of the request.
C12_RelativeResolved ==
    (pc = "done" /\ response.status = 404) =>
        \A h \in Hrefs : IsRelative(h) => Returned(OnOrigin(h))

\* C12 as the code has it: an href that begins with '/' is returned as
\* scheme://host of the request followed by the href, and every link of
\* the answer is such a URL or an href that begins with 'http', unchanged;
\* a relative href that does not begin with '/' gives no link.
C12_RootRelativeResolved ==
    (pc = "done" /\ response.status = 404) =>
        LET origin   == Origin
            hrefs    == Hrefs
            urls     == {response.links[i].url : i \in 1..Len(response.links)}
            resolved == {origin \o h : h \in {g \in hrefs : StartsWithSlash(g)}}
            absolute == {h \in hrefs : StartsWithHttp(h)}
        IN  /\ \A u \in resolved :
                   u = url \/ u \in urls \/ Len(response.links) = 50
            /\ urls \subseteq (resolved \cup absolute)

\* One href with '/' in front is returned on the origin, and one relative
\* href without it is not.
C12_Witness ==
    /\ pc = "done"
    /\ response.status = 404
    /\ \E h \in Hrefs :
           /\ StartsWithSlash(h)
           /\ \E i \in 1..Len(response.links) : response.links[i].url = Origin \o h
    /\ \E h \in Hrefs :
           /\ IsRelative(h)
           /\ ~ StartsWithSlash(h)
           /\ ~ Returned(OnOrigin(h))

\* C13: at most one browser is started for a request; once started it is
\* quit, exactly once and with the return of the handler, whether the
\* request ends 200, 404 or 500; a request that returns before the start
\* of a browser quits none.
C13_QuitOnce ==
    /\ [](launches <= 1 /\ quits <= launches)
    /\ [](pc # "done" => quits = 0)
    /\ [](pc = "done" => quits = launches /\ (driver = "quit" <=> launches = 1))
    /\ [](launches = 0 => driver = "None")
    /\ (launches = 1) ~> (pc = "done" /\ quits = 1 /\ driver = "quit")

\* The page load fails after the browser has started, and the browser is
\* quit.
C13_Witness ==
    /\ pc = "done"
    /\ response.status = 500
    /\ launches = 1
    /\ quits = 1
    /\ driver = "quit"

====
